---- MODULE Spec2Model ----
(***************************************************************************)
(* Model of the two HTTP gateways of strands-agent-team.                   *)
(*   app.py          the text gateway  (/health, /agent, /agent-streaming) *)
(*   voice_agent.py  the voice gateway (/health, /info, /query-agent,      *)
(*                                      /create-call)                      *)
(* One behaviour is one run of one of the two programs: the module's       *)
(* top-level code (Startup) and then the requests the single-process       *)
(* asynchronous server handles.  `loop` is the request whose task occupies *)
(* the event-loop thread between two suspension points.                    *)
(***************************************************************************)
EXTENDS Integers, Sequences, FiniteSets, TLC

\* ------------------------------------------------------------------ bounds
\* Requests one run of a service receives.
MaxReq == 2
\* Longest agent completion, in characters.
MaxLen == 2

Req == 1..MaxReq

\* ------------------------------------------------------ Python/JSON values
\* A value is tagged with its type: None (JSON null, unset variable) is not
\* the empty string.
None == [t |-> "none", v |-> ""]
Str(s) == [t |-> "str", v |-> s]

\* bool(x) for a str-or-None value: None and "" are falsy.
Truthy(x) == x.t = "str" /\ x.v # ""

\* dict.get(key, default) on a map with string keys.
Get(d, k, default) == IF k \in DOMAIN d THEN d[k] ELSE default

\* Merge with the operands of the spread exchanged: the defaults win.
MergeDefaultsWin(defaults, overrides) ==
  [k \in (DOMAIN defaults) \cup (DOMAIN overrides) |->
     IF k \in DOMAIN defaults THEN defaults[k] ELSE overrides[k]]

\* {**defaults, **overrides}: later keys replace earlier ones.
Merge(defaults, overrides) ==
  [k \in (DOMAIN defaults) \cup (DOMAIN overrides) |->
     IF k \in DOMAIN overrides THEN overrides[k] ELSE defaults[k]]

EmptyMap == [k \in {} |-> None]

\* ------------------------------------------------------------------ strings
\* An agent completion is a sequence of characters.
Alphabet == {"a", " "}

RECURSIVE SeqsUpTo(_)
SeqsUpTo(n) ==
  IF n = 0 THEN {<<>>}
  ELSE LET shorter == SeqsUpTo(n - 1)
       IN  shorter \cup {Append(s, c) : s \in shorter, c \in Alphabet}

Completions == SeqsUpTo(MaxLen)

\* str.split(' '): cut at every single space; n spaces give n+1 pieces,
\* empty pieces included.
RECURSIVE Split(_)
Split(s) ==
  IF \A i \in 1..Len(s) : s[i] # " " THEN <<s>>
  ELSE LET i == CHOOSE j \in 1..Len(s) :
                  s[j] = " " /\ \A k \in 1..(j - 1) : s[k] # " "
       IN  <<SubSeq(s, 1, i - 1)>> \o Split(SubSeq(s, i + 1, Len(s)))

\* Chunk without the separator (`yield chunk`).
ChunkWithoutSeparator(piece) == piece

\* chunk + ' '
Chunk(piece) == Append(piece, " ")

\* --------------------------------------------------------------- exceptions
\* An exception object: its class, the status code when it is an
\* HTTPException, and its message.
Exc(class, msg) == [class |-> class, status |-> 0, msg |-> msg]
HTTPException(status_code, detail) ==
  [class |-> "HTTPException", status |-> status_code, msg |-> detail]

\* str(e): an HTTPException prints as "<status>: <detail>", any other
\* exception as its message.
StrOf(e) ==
  IF e.class = "HTTPException" THEN ToString(e.status) \o ": " \o e.msg
  ELSE e.msg

\* What the caller of an endpoint gets: the HTTP status, the JSON body of a
\* success, the detail of a failure.
NoResp == [status |-> 0, body |-> None, detail |-> ""]
Ok(body) == [status |-> 200, body |-> body, detail |-> ""]
\* FastAPI turns an HTTPException that leaves the handler into a response
\* with that status and {detail}.
Failed(e) == [status |-> e.status, body |-> None, detail |-> e.msg]

\* ------------------------------------------------------------------- state
VARIABLES
  service,     \* "text" (app.py) or "voice" (voice_agent.py): the program run
  env,         \* the environment's value of the program's required secret
  phase,       \* "boot", "serving", or "crashed" (module code raised)
  secret,      \* module global openai_api_key / ULTRAVOX_API_KEY
  pc,          \* pc[r]: where request r's task is
  req,         \* req[r]: endpoint and body of request r
  loop,        \* request whose task holds the event-loop thread, 0 if none
  agentCalls,  \* agentCalls[r]: argument tuples r passed to coordinator_agent.run
  agentOut,    \* agentOut[r]: what the agent invocation of r produced
  sent,        \* sent[r]: the outbound HTTP request of r
  upstream,    \* upstream[r]: what came back for the outbound request
  resp,        \* resp[r]: status/body/detail delivered to the caller
  stream       \* stream[r]: state of r's streamed body

vars == <<service, env, phase, secret, pc, req, loop, agentCalls, agentOut,
          sent, upstream, resp, stream>>

NoReq == [endpoint |-> "", body |-> None]
NoOut == [kind |-> "none", value |-> <<>>, exc |-> Exc("", "")]
NoSent == [url |-> "", json |-> EmptyMap, headers |-> EmptyMap, timeout |-> 0]
NoUpstream == [kind |-> "none", status |-> 0, body |-> None, cause |-> ""]
NoStream == [state |-> "none", emitted |-> <<>>, left |-> <<>>]

\* os.getenv of the required secret: unset, set to "", or set to a key.
EnvValues == {None, Str(""), Str("secret-key")}

Init ==
  /\ service \in {"text", "voice"}
  /\ env \in EnvValues
  /\ phase = "boot"
  /\ secret = None
  /\ pc = [r \in Req |-> "idle"]
  /\ req = [r \in Req |-> NoReq]
  /\ loop = 0
  /\ agentCalls = [r \in Req |-> <<>>]
  /\ agentOut = [r \in Req |-> NoOut]
  /\ sent = [r \in Req |-> NoSent]
  /\ upstream = [r \in Req |-> NoUpstream]
  /\ resp = [r \in Req |-> NoResp]
  /\ stream = [r \in Req |-> NoStream]

\* ----------------------------------------------------------------- startup
\* KeyMissing as `if KEY is None`: an empty value passes.
KeyIsNone(key) == key = None

\* `if not KEY: raise ValueError(...)` at module level.
KeyMissing(key) == ~Truthy(key)

\* Module code of either program: read the secret from the environment and
\* raise ValueError when it is missing; otherwise uvicorn.run serves.
Startup ==
  /\ phase = "boot"
  /\ secret' = env
  /\ phase' = IF KeyMissing(env) THEN "crashed" ELSE "serving"
  /\ UNCHANGED <<service, env, pc, req, loop, agentCalls, agentOut, sent,
                 upstream, resp, stream>>

\* ---------------------------------------------------------------- requests
\* Well-formed bodies of POST /agent and POST /agent-streaming.
AgentRequests ==
  { [query |-> "q1", context |-> EmptyMap],
    [query |-> "q2", context |-> [k \in {"user"} |-> Str("u1")]] }

\* The context map matters to /agent only (is it forwarded?): the streaming
\* endpoint is fed the requests without one.
TextRequests ==
  {[endpoint |-> "/health", body |-> None]}
    \cup [endpoint : {"/agent"}, body : AgentRequests]
    \cup [endpoint : {"/agent-streaming"},
          body : {q \in AgentRequests : q.context = EmptyMap}]

\* The server accepts a request and creates its task.
ReceiveText(r, q) ==
  /\ phase = "serving" /\ service = "text"
  /\ pc[r] = "idle"
  /\ req' = [req EXCEPT ![r] = q]
  /\ pc' = [pc EXCEPT ![r] = "ready"]
  /\ UNCHANGED <<service, env, phase, secret, loop, agentCalls, agentOut,
                 sent, upstream, resp, stream>>

\* ------------------------------------------------------------ text gateway
HealthPayload(name) ==
  [status |-> "healthy", service |-> name, version |-> "1.0.0"]

\* GET /health of app.py: no suspension point, one step of the loop.
TextHealth(r) ==
  /\ service = "text" /\ pc[r] = "ready" /\ req[r].endpoint = "/health"
  /\ loop = 0
  /\ resp' = [resp EXCEPT ![r] = Ok(HealthPayload("strands-agent-text-backend"))]
  /\ pc' = [pc EXCEPT ![r] = "done"]
  /\ UNCHANGED <<service, env, phase, secret, req, loop, agentCalls,
                 agentOut, sent, upstream, stream>>

\* AgentArgs with the context map passed along.
AgentArgsWithContext(request) == <<request.query, request.context>>

\* The arguments of coordinator_agent.run(request.query).
AgentArgs(request) == <<request.query>>

\* AgentResponse(response=..., status=...)
AgentResponse(response, status) == [response |-> response, status |-> status]

\* What the agent can raise.
AgentErrors == {Exc("RateLimitError", "rate limit reached")}

\* The thread stays with the task that called coordinator_agent.run: the
\* call is a plain (not awaited) call inside the coroutine.
LoopWhileAgentRuns(r) == r

\* process_query up to the call of coordinator_agent.run.
ProcessQueryCall(r) ==
  /\ service = "text" /\ pc[r] = "ready" /\ req[r].endpoint = "/agent"
  /\ loop = 0
  /\ loop' = LoopWhileAgentRuns(r)
  /\ agentCalls' = [agentCalls EXCEPT ![r] = Append(@, AgentArgs(req[r].body))]
  /\ pc' = [pc EXCEPT ![r] = "inAgent"]
  /\ UNCHANGED <<service, env, phase, secret, req, agentOut, sent, upstream,
                 resp, stream>>

\* The thread is free again once the blocking call is over.
Release(r) == IF loop = r THEN 0 ELSE loop

\* coordinator_agent.run returns c: the success envelope.
ProcessQueryReturn(r, c) ==
  /\ pc[r] = "inAgent"
  /\ agentOut' = [agentOut EXCEPT ![r] = [kind |-> "returned", value |-> c, exc |-> Exc("", "")]]
  /\ resp' = [resp EXCEPT ![r] = Ok(AgentResponse(c, "success"))]
  /\ loop' = Release(r)
  /\ pc' = [pc EXCEPT ![r] = "done"]
  /\ UNCHANGED <<service, env, phase, secret, req, agentCalls, sent,
                 upstream, stream>>

\* `except Exception as e: raise HTTPException(status_code=500, detail=str(e))`
ProcessQueryExcept(e) == HTTPException(500, StrOf(e))

\* coordinator_agent.run raises e.
ProcessQueryRaise(r, e) ==
  /\ pc[r] = "inAgent"
  /\ agentOut' = [agentOut EXCEPT ![r] = [kind |-> "raised", value |-> <<>>, exc |-> e]]
  /\ resp' = [resp EXCEPT ![r] = Failed(ProcessQueryExcept(e))]
  /\ loop' = Release(r)
  /\ pc' = [pc EXCEPT ![r] = "done"]
  /\ UNCHANGED <<service, env, phase, secret, req, agentCalls, sent,
                 upstream, stream>>

\* process_query_streaming: the handler defines generate() and returns
\* StreamingResponse(generate(), ...); calling an async generator function
\* runs none of its body, so nothing in the try block can raise.  The
\* response is started (status 200, text/event-stream) before the body
\* iterator is advanced.
StreamingHandler(r) ==
  /\ service = "text" /\ pc[r] = "ready" /\ req[r].endpoint = "/agent-streaming"
  /\ loop = 0
  /\ resp' = [resp EXCEPT ![r] = Ok(None)]
  /\ stream' = [stream EXCEPT ![r] = [state |-> "open", emitted |-> <<>>, left |-> <<>>]]
  /\ pc' = [pc EXCEPT ![r] = "started"]
  /\ UNCHANGED <<service, env, phase, secret, req, loop, agentCalls,
                 agentOut, sent, upstream>>

\* First advance of generate(): up to the call of coordinator_agent.run.
GenerateCall(r) ==
  /\ pc[r] = "started"
  /\ loop = 0
  /\ loop' = LoopWhileAgentRuns(r)
  /\ agentCalls' = [agentCalls EXCEPT ![r] = Append(@, AgentArgs(req[r].body))]
  /\ pc' = [pc EXCEPT ![r] = "genAgent"]
  /\ UNCHANGED <<service, env, phase, secret, req, agentOut, sent, upstream,
                 resp, stream>>

\* The agent returns c: chunks = response.split(' '), and the first
\* `yield chunk + ' '` hands a chunk to the response.
GenerateReturn(r, c) ==
  /\ pc[r] = "genAgent"
  /\ agentOut' = [agentOut EXCEPT ![r] = [kind |-> "returned", value |-> c, exc |-> Exc("", "")]]
  /\ LET chunks == Split(c)
     IN  stream' = [stream EXCEPT ![r] =
                      [state |-> "open", emitted |-> <<Chunk(Head(chunks))>>,
                       left |-> Tail(chunks)]]
  /\ loop' = Release(r)
  /\ pc' = [pc EXCEPT ![r] = "emitting"]
  /\ UNCHANGED <<service, env, phase, secret, req, agentCalls, sent,
                 upstream, resp>>

\* The agent raises inside generate(): the handler's try block was left
\* long ago, the started response cannot change its status, the body ends
\* without its terminating chunk.
GenerateRaise(r, e) ==
  /\ pc[r] = "genAgent"
  /\ agentOut' = [agentOut EXCEPT ![r] = [kind |-> "raised", value |-> <<>>, exc |-> e]]
  /\ stream' = [stream EXCEPT ![r].state = "aborted"]
  /\ loop' = Release(r)
  /\ pc' = [pc EXCEPT ![r] = "done"]
  /\ UNCHANGED <<service, env, phase, secret, req, agentCalls, sent,
                 upstream, resp>>

\* Next iteration of `for chunk in chunks: yield chunk + ' '`.
GenerateYield(r) ==
  /\ pc[r] = "emitting" /\ stream[r].left # <<>>
  /\ loop = 0
  /\ stream' = [stream EXCEPT ![r].emitted = Append(@, Chunk(Head(stream[r].left))),
                              ![r].left = Tail(@)]
  /\ UNCHANGED <<service, env, phase, secret, pc, req, loop, agentCalls,
                 agentOut, sent, upstream, resp>>

\* generate() is exhausted: the body is closed.
GenerateEnd(r) ==
  /\ pc[r] = "emitting" /\ stream[r].left = <<>>
  /\ loop = 0
  /\ stream' = [stream EXCEPT ![r].state = "complete"]
  /\ pc' = [pc EXCEPT ![r] = "done"]
  /\ UNCHANGED <<service, env, phase, secret, req, loop, agentCalls,
                 agentOut, sent, upstream, resp>>

TextNext ==
  \/ \E r \in Req, q \in TextRequests : ReceiveText(r, q)
  \/ \E r \in Req : TextHealth(r)
  \/ \E r \in Req : ProcessQueryCall(r)
  \/ \E r \in Req, c \in Completions : ProcessQueryReturn(r, c)
  \/ \E r \in Req, e \in AgentErrors : ProcessQueryRaise(r, e)
  \/ \E r \in Req : StreamingHandler(r)
  \/ \E r \in Req : GenerateCall(r)
  \/ \E r \in Req, c \in Completions : GenerateReturn(r, c)
  \/ \E r \in Req, e \in AgentErrors : GenerateRaise(r, e)
  \/ \E r \in Req : GenerateYield(r)
  \/ \E r \in Req : GenerateEnd(r)

\* ----------------------------------------------------------- voice gateway
Num(s) == [t |-> "num", v |-> s]

\* STRANDS_BACKEND_URL with its default, and the Ultravox endpoint.
STRANDS_BACKEND_URL == "http://10.0.0.3:8000"
UltravoxCallsUrl == "https://api.fixie.ai/ultravox/calls"

\* Well-formed bodies of POST /query-agent (session_id is optional).
VoiceQueries ==
  { [transcribed_text |-> "hello", session_id |-> None],
    [transcribed_text |-> "status?", session_id |-> Str("s1")] }

\* Bodies of POST /create-call: no body, or a JSON object.
CallerValues ==
  [k \in {"temperature", "voice"} |->
     IF k = "temperature" THEN Num("0.2") ELSE Str("Mark")]

CallConfigs ==
  {None} \cup {[k \in K |-> CallerValues[k]] : K \in SUBSET DOMAIN CallerValues}

VoiceRequests ==
  [endpoint : {"/health", "/info"}, body : {None}]
    \cup [endpoint : {"/query-agent"}, body : VoiceQueries]
    \cup [endpoint : {"/create-call"}, body : CallConfigs]

ReceiveVoice(r, q) ==
  /\ phase = "serving" /\ service = "voice"
  /\ pc[r] = "idle"
  /\ req' = [req EXCEPT ![r] = q]
  /\ pc' = [pc EXCEPT ![r] = "ready"]
  /\ UNCHANGED <<service, env, phase, secret, loop, agentCalls, agentOut,
                 sent, upstream, resp, stream>>

\* GET /health of voice_agent.py.
VoiceHealth(r) ==
  /\ service = "voice" /\ pc[r] = "ready" /\ req[r].endpoint = "/health"
  /\ loop = 0
  /\ resp' = [resp EXCEPT ![r] = Ok(HealthPayload("voice-agent-gateway"))]
  /\ pc' = [pc EXCEPT ![r] = "done"]
  /\ UNCHANGED <<service, env, phase, secret, req, loop, agentCalls,
                 agentOut, sent, upstream, stream>>

\* GET /info: ultravox_enabled is bool(ULTRAVOX_API_KEY).
Info(r) ==
  /\ service = "voice" /\ pc[r] = "ready" /\ req[r].endpoint = "/info"
  /\ loop = 0
  /\ resp' = [resp EXCEPT ![r] =
                Ok([service |-> "voice-agent-gateway",
                    backend_url |-> STRANDS_BACKEND_URL,
                    voice_port |-> 8003,
                    ultravox_enabled |-> Truthy(secret)])]
  /\ pc' = [pc EXCEPT ![r] = "done"]
  /\ UNCHANGED <<service, env, phase, secret, req, loop, agentCalls,
                 agentOut, sent, upstream, stream>>

\* What `await client.post(...)` can do: raise an httpx.RequestError
\* (DNS failure, connection refused, timeout) or return a response.
TransportErrors ==
  { Exc("ConnectError", "Name or service not known"),
    Exc("ConnectError", "Connection refused"),
    Exc("ReadTimeout", "timed out") }

\* The classes of TransportErrors derive from httpx.RequestError.
IsRequestError(e) == e.class \in {"ConnectError", "ReadTimeout"}

\* An upstream body: a JSON object, or text that is no JSON.
JsonObject(fields) == [kind |-> "object", obj |-> fields]
NotJson == [kind |-> "invalid", obj |-> EmptyMap]

Reply(status, body) ==
  [kind |-> "reply", status |-> status, body |-> body, cause |-> ""]
TransportFailure(e) ==
  [kind |-> "error", status |-> 0, body |-> None, cause |-> e.msg]

\* The result of a try block: a returned value or a raised exception.
Return(value) == [ok |-> TRUE, value |-> value, exc |-> Exc("", "")]
Raise(e) == [ok |-> FALSE, value |-> None, exc |-> e]

\* response.json() on a body that is no JSON.
JsonError(body) == Exc("JSONDecodeError", "Expecting value")

\* ---- POST /query-agent
\* VoiceResponse that drops the caller's session id.
VoiceResponseWithoutSession(response, session_id) ==
  [response |-> response, session_id |-> None]

VoiceResponse(response, session_id) ==
  [response |-> response, session_id |-> session_id]

\* The request of client.post(f"{STRANDS_BACKEND_URL}/agent", json=..., timeout=30.0)
QueryRequest(query) ==
  [url |-> STRANDS_BACKEND_URL \o "/agent",
   json |-> [k \in {"query"} |-> Str(query.transcribed_text)],
   headers |-> EmptyMap,
   timeout |-> 30]

\* `if response.status_code != 200`
QueryIsError(status) == status # 200

\* The try block of query_voice_agent once the backend has replied.
QueryTry(query, status, body) ==
  IF QueryIsError(status)
    THEN Raise(HTTPException(status, "Error from backend agent"))
  ELSE IF body.kind # "object" THEN Raise(JsonError(body))
  ELSE LET response == Get(body.obj, "response", Str(""))
       IN  IF response.t # "str"
             THEN Raise(Exc("ValidationError", "response: str type expected"))
             ELSE Return(VoiceResponse(response, query.session_id))

\* QueryExcept with the catch-all clause first.
QueryExceptCatchAllFirst(e) == HTTPException(500, StrOf(e))

\* The except clauses of query_voice_agent, in their order: RequestError
\* first, then every other Exception (an HTTPException raised in the try
\* block is one).
QueryExcept(e) ==
  IF IsRequestError(e) THEN HTTPException(503, "Unable to reach backend service")
  ELSE HTTPException(500, StrOf(e))

\* The caller's answer: the returned value as the 200 body, or the
\* HTTPException the except clauses raise.
QueryAnswer(result) ==
  IF result.ok THEN Ok(result.value) ELSE Failed(QueryExcept(result.exc))

QueryAgentSend(r) ==
  /\ service = "voice" /\ pc[r] = "ready" /\ req[r].endpoint = "/query-agent"
  /\ loop = 0
  /\ sent' = [sent EXCEPT ![r] = QueryRequest(req[r].body)]
  /\ pc' = [pc EXCEPT ![r] = "awaitBackend"]
  /\ UNCHANGED <<service, env, phase, secret, req, loop, agentCalls,
                 agentOut, upstream, resp, stream>>

QueryAgentReply(r, status, body) ==
  /\ pc[r] = "awaitBackend"
  /\ loop = 0
  /\ upstream' = [upstream EXCEPT ![r] = Reply(status, body)]
  /\ resp' = [resp EXCEPT ![r] = QueryAnswer(QueryTry(req[r].body, status, body))]
  /\ pc' = [pc EXCEPT ![r] = "done"]
  /\ UNCHANGED <<service, env, phase, secret, req, loop, agentCalls,
                 agentOut, sent, stream>>

QueryAgentTransportError(r, e) ==
  /\ pc[r] = "awaitBackend"
  /\ loop = 0
  /\ upstream' = [upstream EXCEPT ![r] = TransportFailure(e)]
  /\ resp' = [resp EXCEPT ![r] = QueryAnswer(Raise(e))]
  /\ pc' = [pc EXCEPT ![r] = "done"]
  /\ UNCHANGED <<service, env, phase, secret, req, loop, agentCalls,
                 agentOut, sent, stream>>

\* Replies of the backend the model feeds to query_voice_agent.
QueryOkBody ==
  JsonObject([k \in {"response", "status"} |->
                IF k = "response" THEN Str("ok") ELSE Str("success")])

QueryBodies ==
  { QueryOkBody,
    JsonObject([k \in {"status"} |-> Str("success")]),
    JsonObject([k \in {"response"} |-> None]),
    NotJson }

ErrorBody == JsonObject([k \in {"detail"} |-> Str("upstream failure")])

QueryReplies ==
  [status : {200}, body : QueryBodies]
    \cup [status : {201}, body : {QueryOkBody}]
    \cup [status : {404, 503}, body : {ErrorBody}]

\* ---- POST /create-call
DefaultCallData ==
  [k \in {"systemPrompt", "model", "temperature"} |->
     CASE k = "systemPrompt" ->
            Str("You are a helpful voice assistant powered by Strands Agent Team. Answer questions concisely and naturally.")
       [] k = "model" -> Str("fixie-ai/ultravox")
       [] k = "temperature" -> Num("0.7")]

\* `call_config or {}`: None and the empty dict are falsy.
OrEmpty(call_config) ==
  IF call_config = None \/ DOMAIN call_config = {} THEN EmptyMap ELSE call_config

\* call_data = {<defaults>, **(call_config or {})}
CallData(call_config) == Merge(DefaultCallData, OrEmpty(call_config))

CallRequest(call_config, key) ==
  [url |-> UltravoxCallsUrl,
   json |-> CallData(call_config),
   headers |-> [k \in {"Authorization", "Content-Type"} |->
                  IF k = "Authorization" THEN Str("Bearer " \o key.v)
                  ELSE Str("application/json")],
   timeout |-> 30]

\* `if response.status_code not in [200, 201]`
CallIsError(status) == status \notin {200, 201}

\* The try block of create_voice_call once Ultravox has replied.
CallTry(status, body) ==
  IF CallIsError(status)
    THEN Raise(HTTPException(status, "Error creating call with Ultravox"))
  ELSE IF body.kind # "object" THEN Raise(JsonError(body))
  ELSE Return([call_id |-> Get(body.obj, "call_id", None),
               join_url |-> Get(body.obj, "join_url", None),
               status |-> "created"])

\* The except clauses of create_voice_call, in their order.
CallExcept(e) ==
  IF IsRequestError(e) THEN HTTPException(503, "Ultravox service unavailable")
  ELSE HTTPException(500, StrOf(e))

CallAnswer(result) ==
  IF result.ok THEN Ok(result.value) ELSE Failed(CallExcept(result.exc))

CreateCallSend(r) ==
  /\ service = "voice" /\ pc[r] = "ready" /\ req[r].endpoint = "/create-call"
  /\ loop = 0
  /\ sent' = [sent EXCEPT ![r] = CallRequest(req[r].body, secret)]
  /\ pc' = [pc EXCEPT ![r] = "awaitUltravox"]
  /\ UNCHANGED <<service, env, phase, secret, req, loop, agentCalls,
                 agentOut, upstream, resp, stream>>

CreateCallReply(r, status, body) ==
  /\ pc[r] = "awaitUltravox"
  /\ loop = 0
  /\ upstream' = [upstream EXCEPT ![r] = Reply(status, body)]
  /\ resp' = [resp EXCEPT ![r] = CallAnswer(CallTry(status, body))]
  /\ pc' = [pc EXCEPT ![r] = "done"]
  /\ UNCHANGED <<service, env, phase, secret, req, loop, agentCalls,
                 agentOut, sent, stream>>

CreateCallTransportError(r, e) ==
  /\ pc[r] = "awaitUltravox"
  /\ loop = 0
  /\ upstream' = [upstream EXCEPT ![r] = TransportFailure(e)]
  /\ resp' = [resp EXCEPT ![r] = CallAnswer(Raise(e))]
  /\ pc' = [pc EXCEPT ![r] = "done"]
  /\ UNCHANGED <<service, env, phase, secret, req, loop, agentCalls,
                 agentOut, sent, stream>>

\* Replies of Ultravox the model feeds to create_voice_call.
CallOkBody ==
  JsonObject([k \in {"call_id", "join_url"} |->
                IF k = "call_id" THEN Str("c-1") ELSE Str("https://join/c-1")])

CallReplies ==
  [status : {200, 201}, body : {CallOkBody}]
    \cup [status : {200}, body : {JsonObject(EmptyMap), NotJson}]
    \cup [status : {404, 503}, body : {ErrorBody}]

VoiceNext ==
  \/ \E r \in Req, q \in VoiceRequests : ReceiveVoice(r, q)
  \/ \E r \in Req : VoiceHealth(r)
  \/ \E r \in Req : Info(r)
  \/ \E r \in Req : QueryAgentSend(r)
  \/ \E r \in Req, x \in QueryReplies : QueryAgentReply(r, x.status, x.body)
  \/ \E r \in Req, e \in TransportErrors : QueryAgentTransportError(r, e)
  \/ \E r \in Req : CreateCallSend(r)
  \/ \E r \in Req, x \in CallReplies : CreateCallReply(r, x.status, x.body)
  \/ \E r \in Req, e \in TransportErrors : CreateCallTransportError(r, e)

Next == Startup \/ TextNext \/ VoiceNext

Spec == Init /\ [][Next]_vars

\* =================================================================== claims
Done(r, endpoint) == pc[r] = "done" /\ req[r].endpoint = endpoint
Replied(r) == upstream[r].kind = "reply"

\* The concatenation of a sequence of chunks.
RECURSIVE Flatten(_)
Flatten(chunks) ==
  IF chunks = <<>> THEN <<>> ELSE Head(chunks) \o Flatten(Tail(chunks))

\* s without its trailing spaces (rstrip(' ')).
RECURSIVE RStrip(_)
RStrip(s) ==
  IF s # <<>> /\ s[Len(s)] = " " THEN RStrip(SubSeq(s, 1, Len(s) - 1)) ELSE s

\* s without its last character.
DropLast(s) == SubSeq(s, 1, Len(s) - 1)

\* ---- C1
\* C1 (as claimed): when the backend answers /query-agent's outbound call
\* with a status that is not 2xx, the caller gets that same status.
C1_UpstreamStatusPropagated ==
  \A r \in Req :
    (Done(r, "/query-agent") /\ Replied(r) /\ upstream[r].status \notin 200..299)
      => resp[r].status = upstream[r].status

\* ---- C2
\* C2 (as claimed): for create_voice_call an upstream 200 or 201 with a JSON
\* object is a success, and every other upstream status is the status the
\* caller gets.
C2_CallStatusPropagated ==
  \A r \in Req :
    (Done(r, "/create-call") /\ Replied(r))
      => /\ (upstream[r].status \in {200, 201} /\ upstream[r].body.kind = "object")
              => resp[r].status = 200
         /\ upstream[r].status \notin {200, 201}
              => resp[r].status = upstream[r].status

\* ---- C3
UnavailableDetail(endpoint) ==
  IF endpoint = "/query-agent" THEN "Unable to reach backend service"
  ELSE "Ultravox service unavailable"

\* C3: in /query-agent and /create-call a transport failure of the outbound
\* call gives 503 with the endpoint's fixed message whatever the cause, and
\* no upstream reply that carried a status gives 503.
C3_TransportFailureIs503 ==
  \A r \in Req :
    (pc[r] = "done" /\ req[r].endpoint \in {"/query-agent", "/create-call"})
      => /\ upstream[r].kind = "error"
              => /\ resp[r].status = 503
                 /\ resp[r].detail = UnavailableDetail(req[r].endpoint)
         /\ Replied(r) => resp[r].status # 503

\* A timeout of one endpoint answered 503 and an upstream 503 of the other
\* answered otherwise.
C3_Witness ==
  \E r1, r2 \in Req :
    /\ Done(r1, "/query-agent") /\ upstream[r1].kind = "error"
    /\ upstream[r1].cause = "timed out" /\ resp[r1].status = 503
    /\ Done(r2, "/create-call") /\ Replied(r2) /\ upstream[r2].status = 503

\* ---- C4
\* C4 (as claimed): on /agent-streaming a raising agent gives the caller
\* status 500, and no success status or stream is committed before the
\* agent call has returned.
C4_StreamingFailureIs500 ==
  \A r \in Req :
    req[r].endpoint = "/agent-streaming"
      => /\ agentOut[r].kind = "raised" => resp[r].status = 500
         /\ (resp[r].status = 200 \/ stream[r].state # "none")
              => agentOut[r].kind = "returned"

\* ---- C5
StreamComplete(r) == Done(r, "/agent-streaming") /\ stream[r].state = "complete"

\* The response string process_query returns for a completion.
ProcessQueryResponseFor(c) == AgentResponse(c, "success").response

\* C5 (as claimed): the concatenation of the emitted chunks, stripped of
\* the trailing separators, is the response process_query returns for the
\* same completion.
C5_StrippedOfTrailingSeparators ==
  \A r \in Req :
    StreamComplete(r)
      => RStrip(Flatten(stream[r].emitted)) = ProcessQueryResponseFor(agentOut[r].value)

\* C5 (amended): the concatenation of the emitted chunks ends with a
\* separator, and without that one final separator it is the response
\* process_query returns for the same completion.
C5_StrippedOfFinalSeparator ==
  \A r \in Req :
    StreamComplete(r)
      => LET all == Flatten(stream[r].emitted)
         IN  /\ all # <<>> /\ all[Len(all)] = " "
             /\ DropLast(all) = ProcessQueryResponseFor(agentOut[r].value)

\* A completion of two spaces was streamed to its end, in three chunks.
C5_Witness ==
  \E r \in Req :
    /\ StreamComplete(r)
    /\ agentOut[r].value = <<" ", " ">>
    /\ Len(stream[r].emitted) = 3

\* ---- C6
\* The caller's map: no body counts as the empty map.
CallerMap(r) == IF req[r].body = None THEN EmptyMap ELSE req[r].body

\* C6: the payload create_voice_call sends has the caller's keys with the
\* caller's values, the default keys the caller left out with the default
\* values (model "fixie-ai/ultravox", temperature 0.7), and no other key;
\* without a config or with an empty one it is the default map.
C6_MergedPayload ==
  \A r \in Req :
    (req[r].endpoint = "/create-call" /\ pc[r] \in {"awaitUltravox", "done"})
      => LET caller == CallerMap(r)
             payload == sent[r].json
             defaults == {"systemPrompt", "model", "temperature"}
         IN  /\ DOMAIN payload = defaults \cup DOMAIN caller
             /\ \A k \in DOMAIN caller : payload[k] = caller[k]
             /\ \A k \in defaults \ DOMAIN caller : payload[k] = DefaultCallData[k]
             /\ "model" \notin DOMAIN caller => payload["model"] = Str("fixie-ai/ultravox")
             /\ "temperature" \notin DOMAIN caller => payload["temperature"] = Num("0.7")
             /\ DOMAIN caller = {} => payload = DefaultCallData

\* A call with {"temperature": 0.2} went out with that temperature and the
\* default model.
C6_Witness ==
  \E r \in Req :
    /\ Done(r, "/create-call")
    /\ req[r].body # None /\ DOMAIN req[r].body = {"temperature"}
    /\ sent[r].json["temperature"] = Num("0.2")
    /\ sent[r].json["model"] = Str("fixie-ai/ultravox")

\* ---- C7
\* The request body query_voice_agent sends is exactly {query: text}.
OnlyQuerySent(r) ==
  /\ DOMAIN sent[r].json = {"query"}
  /\ sent[r].json["query"] = Str(req[r].body.transcribed_text)

\* The result the claim describes for a reply.
UnwrappedResult(r) ==
  /\ resp[r].status = 200
  /\ resp[r].body.response = Get(upstream[r].body.obj, "response", Str(""))
  /\ resp[r].body.session_id = req[r].body.session_id
  /\ OnlyQuerySent(r)

\* C7 (as claimed): for every 2xx reply with a JSON object body the result
\* is the body's response field (or "") with the caller's session id, and
\* only {query} was sent.
C7_Every2xxUnwrapped ==
  \A r \in Req :
    (Done(r, "/query-agent") /\ Replied(r)
       /\ upstream[r].status \in 200..299 /\ upstream[r].body.kind = "object")
      => UnwrappedResult(r)

\* C7 (amended): for every reply with status 200 and a JSON object body
\* whose response field is absent or a string, the result is that field
\* (or "") with the caller's session id, and only {query} was sent.
C7_Status200Unwrapped ==
  \A r \in Req :
    /\ (req[r].endpoint = "/query-agent" /\ pc[r] \in {"awaitBackend", "done"})
         => OnlyQuerySent(r)
    /\ (Done(r, "/query-agent") /\ Replied(r)
          /\ upstream[r].status = 200 /\ upstream[r].body.kind = "object"
          /\ Get(upstream[r].body.obj, "response", Str("")).t = "str")
         => UnwrappedResult(r)

\* A 200 reply without a response field was answered with "" and the
\* caller's session id s1.
C7_Witness ==
  \E r \in Req :
    /\ Done(r, "/query-agent") /\ Replied(r) /\ upstream[r].status = 200
    /\ upstream[r].body.kind = "object"
    /\ "response" \notin DOMAIN upstream[r].body.obj
    /\ req[r].body.session_id = Str("s1")
    /\ resp[r].body = [response |-> Str(""), session_id |-> Str("s1")]

\* ---- C8
\* C8: process_query calls the agent once, with the query text alone; when
\* the agent returns, the result is {response: completion, status:
\* "success"}; when it raises, the result is HTTP 500 without an envelope.
C8_ProcessQueryEnvelope ==
  \A r \in Req :
    req[r].endpoint = "/agent"
      => /\ pc[r] \in {"inAgent", "done"}
              => agentCalls[r] = << <<req[r].body.query>> >>
         /\ pc[r] = "ready" => agentCalls[r] = <<>>
         /\ (pc[r] = "done" /\ agentOut[r].kind = "returned")
              => /\ resp[r].status = 200
                 /\ resp[r].body = [response |-> agentOut[r].value, status |-> "success"]
         /\ (pc[r] = "done" /\ agentOut[r].kind = "raised")
              => /\ resp[r].status = 500
                 /\ resp[r].body = None
         /\ pc[r] = "done" => agentOut[r].kind \in {"returned", "raised"}

\* A query with a context map was answered with the agent's completion,
\* and another one with 500 after the agent raised.
C8_Witness ==
  \E r1, r2 \in Req :
    /\ Done(r1, "/agent") /\ req[r1].body.context # EmptyMap
    /\ agentOut[r1].kind = "returned" /\ agentOut[r1].value = <<"a", " ">>
    /\ resp[r1].status = 200
    /\ Done(r2, "/agent") /\ agentOut[r2].kind = "raised" /\ resp[r2].status = 500

\* ---- C9
\* C9: a program whose secret is unset or empty never serves and never
\* takes a request, and every answer of /info has ultravox_enabled true.
C9_NoTrafficWithoutSecret ==
  /\ phase = "serving" => (env # None /\ env # Str(""))
  /\ \A r \in Req : pc[r] # "idle" => (env # None /\ env # Str(""))
  /\ \A r \in Req : Done(r, "/info") => resp[r].body.ultravox_enabled = TRUE

\* The module code ran with the secret set to "" and the process is down.
C9_Witness == phase = "crashed" /\ env = Str("") /\ \A r \in Req : pc[r] = "idle"

\* ---- C10
\* C10 (as claimed): while a request waits for its agent invocation, the
\* server can run the handler of another request that is ready (GET
\* /health).
C10_HealthRunsDuringAgentCall ==
  \A r, h \in Req :
    (pc[r] \in {"inAgent", "genAgent"} /\ pc[h] = "ready" /\ req[h].endpoint = "/health")
      => ENABLED TextHealth(h)

====
